---------------------------- MODULE Spec2Model ----------------------------
(***************************************************************************)
(* Model of assistant_api/vector_store.py (class VectorStore).             *)
(*                                                                         *)
(* A Python str is a sequence of one-character strings.  The characters    *)
(* that the code distinguishes are the sentence punctuation ".", "!", "?"  *)
(* and the whitespace " " and "\n"; "a" stands for every other character.  *)
(*                                                                         *)
(* Three specifications share the module:                                  *)
(*   SpecOverlap  _get_overlap_text as a pure function of its arguments    *)
(*   SpecChunk    _chunk_text, one step per iteration of its paragraph     *)
(*                loop, _split_long_paragraph and _get_overlap_text inside *)
(*   SpecStore    load_documents, _create_embedding, close, __exit__ and   *)
(*                __del__ against the Qdrant collection                    *)
(***************************************************************************)
EXTENDS Integers, Sequences, FiniteSets, TLC

VARIABLES
    \* ---- SpecOverlap: one call of _get_overlap_text
    o_text,          \* argument text
    o_size,          \* argument overlap_size
    o_result,        \* the returned string
    o_pc,            \* "call" before the call, "returned" after it
    \* ---- SpecChunk: one call of _chunk_text
    text,            \* argument text
    chunk_size,      \* argument chunk_size
    overlap,         \* argument overlap
    paragraphs,      \* text.split('\n\n')
    next_par,        \* index (1-based) of the next paragraph of the for loop
    loop,            \* the loop's locals: chunks, current_chunk and a log
    returned,        \* the list returned by _chunk_text (after line 154)
    c_pc,            \* "loop" | "returned"
    \* ---- SpecStore: one VectorStore object and its Qdrant collection
    has_client,      \* whether __init__ got as far as setting self.client (line 39)
    alive,           \* FALSE once __del__ has run
    client_open,     \* whether the QdrantClient still holds its connection
    client_close_calls, \* how many times self.client.close() was invoked
    points,          \* the points of the collection
    s_pc,            \* "idle", or where load_documents stands: "embedding" | "upsert"
    doc,             \* load_documents: the text read from the file (line 261)
    ld_chunks,       \* load_documents: chunks (line 264)
    ld_i,            \* load_documents: how many chunks the for loop has done
    ld_points,       \* load_documents: the local list points (line 274)
    next_uuid,       \* the uuid4 values handed out so far
    outcome,         \* how the last call ended
    load_calls,      \* load_documents calls made
    embed_calls,     \* embedding requests issued (line 309)
    upsert_calls,    \* client.upsert calls issued (line 292)
    writers          \* the load_documents calls (by number) that stored a point

ovars == <<o_text, o_size, o_result, o_pc>>
cvars == <<text, chunk_size, overlap, paragraphs, next_par, loop, returned, c_pc>>
svars == <<has_client, alive, client_open, client_close_calls, points, s_pc, doc,
           ld_chunks, ld_i, ld_points, next_uuid, outcome, load_calls, embed_calls,
           upsert_calls, writers>>
vars == <<ovars, cvars, svars>>

----------------------------------------------------------------------------
(* Python str primitives *)

NL == "\n"
Char == {"a", ".", "!", "?", " ", NL}

\* str.isspace on one character (what str.strip() and the regex \s remove)
IsSpace(c) == c \in {" ", NL}

\* the regex class [.!?]
IsPunct(c) == c \in {".", "!", "?"}

Min(S) == CHOOSE x \in S : \A y \in S : x <= y
Max(S) == CHOOSE x \in S : \A y \in S : y <= x

\* str.strip()
Strip(s) ==
    LET keep == {i \in 1..Len(s) : ~IsSpace(s[i])}
    IN  IF keep = {} THEN <<>> ELSE SubSeq(s, Min(keep), Max(keep))

\* str.find(sub): 0-based index of the first occurrence, -1 when there is none
Find(s, sub) ==
    LET hits == {i \in 0..(Len(s) - Len(sub)) : SubSeq(s, i + 1, i + Len(sub)) = sub}
    IN  IF hits = {} THEN -1 ELSE Min(hits)

\* s[k:] for 0 <= k
SliceFrom(s, k) == SubSeq(s, k + 1, Len(s))

\* a slip in line 174: text[:overlap_size], the head instead of the tail
SliceLast_head(s, n) == SubSeq(s, 1, IF n > Len(s) THEN Len(s) ELSE n)

\* s[-n:] for n >= 0.  Python reads -0 as 0, so s[-0:] is s[0:], the whole string.
SliceLast(s, n) ==
    IF n = 0 THEN s
    ELSE IF n >= Len(s) THEN s
    ELSE SubSeq(s, Len(s) - n + 1, Len(s))

\* n copies of character c
Rep(c, n) == [i \in 1..n |-> c]

----------------------------------------------------------------------------
(* _get_overlap_text, lines 158-188 *)

\* line 177
sentence_starts == << <<".", " ">>, <<"!", " ">>, <<"?", " ">>, <<NL>> >>

\* lines 178-183: the for loop over sentence_starts from its k-th delimiter on,
\* best_start being the value the earlier iterations left
RECURSIVE BestStartFrom(_, _, _)
BestStartFrom(overlap_candidate, k, best_start) ==
    IF k > Len(sentence_starts) THEN best_start
    ELSE LET delimiter == sentence_starts[k]
             pos == Find(overlap_candidate, delimiter)
         IN  BestStartFrom(overlap_candidate, k + 1,
                 IF pos # -1 /\ pos > best_start
                 THEN pos + Len(delimiter) ELSE best_start)

\* lines 170-188
_get_overlap_text(t, overlap_size) ==
    IF Len(t) <= overlap_size THEN t
    ELSE LET overlap_candidate == SliceLast(t, overlap_size)
             best_start == BestStartFrom(overlap_candidate, 1, 0)
         IN  IF best_start > 0
             THEN Strip(SliceFrom(overlap_candidate, best_start))
             ELSE Strip(overlap_candidate)

----------------------------------------------------------------------------
(* _split_long_paragraph, lines 190-246 *)

\* [.!?]+ : end (1-based, inclusive) of the longest run of punctuation that
\* starts at position i; i - 1 when s[i] is no punctuation
PunctRunEnd(s, i) ==
    LET stop == {j \in i..Len(s) : ~IsPunct(s[j])}
    IN  IF stop = {} THEN Len(s) ELSE Min(stop) - 1

\* \s+ : the same for a run of whitespace
SpaceRunEnd(s, i) ==
    LET stop == {j \in i..Len(s) : ~IsSpace(s[j])}
    IN  IF stop = {} THEN Len(s) ELSE Min(stop) - 1

\* whether the regex [.!?]+\s+ matches at position i (1-based): the greedy
\* punctuation run from i must be followed by whitespace (a shorter run would
\* be followed by punctuation, so backtracking finds nothing more)
MatchesAt(s, i) ==
    /\ IsPunct(s[i])
    /\ LET e == PunctRunEnd(s, i)
       IN  e < Len(s) /\ IsSpace(s[e + 1])

\* line 204: re.split(r'([.!?]+\s+)', paragraph): the pieces between the
\* leftmost non-overlapping matches, each followed by the captured match
RECURSIVE ReSplit(_)
ReSplit(s) ==
    LET starts == {i \in 1..Len(s) : MatchesAt(s, i)}
    IN  IF starts = {} THEN <<s>>
        ELSE LET b == Min(starts)
                 e == SpaceRunEnd(s, PunctRunEnd(s, b) + 1)
             IN  <<SubSeq(s, 1, b - 1), SubSeq(s, b, e)>> \o ReSplit(SliceFrom(s, e))

\* lines 207-216: range(0, len(sentences) - 1, 2) pairs each piece with its
\* delimiter; an odd-length list leaves a last piece, appended on its own
FullSentences(sentences) ==
    LET n == Len(sentences)
        pairs == [k \in 1..(n \div 2) |->
                    LET i == 2 * (k - 1)
                    IN  IF i + 1 < n THEN sentences[i + 1] \o sentences[i + 2]
                        ELSE sentences[i + 1]]
    IN  IF n % 2 = 1 THEN Append(pairs, sentences[n]) ELSE pairs

\* The locals of a packing loop (lines 114-115, 218-219) with a log of what the
\* loop did.  chunks and current_chunk are the code's; the rest is bookkeeping:
\*   cuts[i]    how many leading characters of chunks[i] are an overlap
\*              fragment and its separator
\*   cur_cut    the same for current_chunk
\*   boundaries one entry per flush: the flushed chunk, overlap_text (lines
\*              133, 237), the joiner and the current_chunk started from it
\*   decisions  one entry per non-blank paragraph of _chunk_text: the branch
\*              of lines 123-147 that took it
EmptyLoop ==
    [chunks |-> <<>>, current_chunk |-> <<>>, cuts |-> <<>>, cur_cut |-> 0,
     boundaries |-> <<>>, decisions |-> <<>>]

\* lines 131-134 and 235-238: flush current_chunk and start the next one from
\* its overlap; joiner is "\n\n" for paragraphs and " " for sentences
FlushAndOverlap(st, piece, joiner, ov) ==
    LET overlap_text == _get_overlap_text(st.current_chunk, ov)
        next == IF overlap_text # <<>> THEN overlap_text \o joiner \o piece ELSE piece
    IN  [st EXCEPT !.chunks = Append(st.chunks, st.current_chunk),
                   !.cuts = Append(st.cuts, st.cur_cut),
                   !.current_chunk = next,
                   !.cur_cut = IF overlap_text # <<>>
                               THEN Len(overlap_text) + Len(joiner) ELSE 0,
                   !.boundaries = Append(st.boundaries,
                       [flushed |-> st.current_chunk, overlap_text |-> overlap_text,
                        joiner |-> joiner, next |-> next])]

\* lines 124-127 and 228-231: add the piece to current_chunk
AppendPiece(st, piece, joiner) ==
    [st EXCEPT !.current_chunk =
        IF st.current_chunk # <<>> THEN st.current_chunk \o joiner \o piece ELSE piece]

\* lines 221-241: one iteration of the sentence loop
SentenceStep(st, raw, cs, ov) ==
    LET sentence == Strip(raw)
    IN  IF sentence = <<>> THEN st
        ELSE IF Len(st.current_chunk) + Len(sentence) + 1 <= cs
             THEN AppendPiece(st, sentence, <<" ">>)
        ELSE IF st.current_chunk # <<>>
             THEN FlushAndOverlap(st, sentence, <<" ">>, ov)
        ELSE [st EXCEPT !.current_chunk = sentence, !.cur_cut = 0]

RECURSIVE SentenceLoop(_, _, _, _, _)
SentenceLoop(st, full_sentences, k, cs, ov) ==
    IF k > Len(full_sentences) THEN st
    ELSE SentenceLoop(SentenceStep(st, full_sentences[k], cs, ov),
                      full_sentences, k + 1, cs, ov)

\* a slip: the flush after the loop (lines 150-151, 243-244) left out
FlushLast_forgotten(st) == st

\* lines 150-151 and 243-244: the last current_chunk, when not empty, is a chunk
FlushLast(st) ==
    IF st.current_chunk # <<>>
    THEN [st EXCEPT !.chunks = Append(st.chunks, st.current_chunk),
                    !.cuts = Append(st.cuts, st.cur_cut),
                    !.current_chunk = <<>>, !.cur_cut = 0]
    ELSE st

\* lines 202-246 with the log: the loop's state at the return
SplitLoop(paragraph, cs, ov) ==
    FlushLast(SentenceLoop(EmptyLoop, FullSentences(ReSplit(paragraph)), 1, cs, ov))

\* lines 190-246
_split_long_paragraph(paragraph, cs, ov) == SplitLoop(paragraph, cs, ov).chunks

----------------------------------------------------------------------------
(* _chunk_text, lines 93-156 *)

\* line 112: text.split('\n\n')
RECURSIVE SplitParagraphs(_)
SplitParagraphs(s) ==
    LET pos == Find(s, <<NL, NL>>)
    IN  IF pos = -1 THEN <<s>>
        ELSE <<SubSeq(s, 1, pos)>> \o SplitParagraphs(SliceFrom(s, pos + 2))

\* lines 138-147: current_chunk is empty and the paragraph does not fit
SplitOrAlone(st, paragraph, cs, ov) ==
    IF Len(paragraph) > cs
    THEN LET sub == SplitLoop(paragraph, cs, ov)
             sentence_chunks == sub.chunks
             n == Len(sentence_chunks)
         IN  IF n > 0
             THEN [st EXCEPT !.chunks = st.chunks \o SubSeq(sentence_chunks, 1, n - 1),
                             !.cuts = st.cuts \o SubSeq(sub.cuts, 1, n - 1),
                             !.current_chunk = sentence_chunks[n],
                             !.cur_cut = sub.cuts[n],
                             !.boundaries = st.boundaries \o sub.boundaries]
             ELSE st
    ELSE [st EXCEPT !.current_chunk = paragraph, !.cur_cut = 0]

\* the branch of lines 123-147 that takes a stripped, non-blank paragraph
Branch(st, paragraph, cs) ==
    IF Len(st.current_chunk) + Len(paragraph) + 2 <= cs THEN "fits"
    ELSE IF st.current_chunk # <<>> THEN "flush"
    ELSE IF Len(paragraph) > cs THEN "split"
    ELSE "alone"

\* lines 117-147: one iteration of the paragraph loop
ParagraphStep(st, raw, cs, ov) ==
    LET paragraph == Strip(raw)
        branch == Branch(st, paragraph, cs)
        logged == [st EXCEPT !.decisions =
                      Append(st.decisions, [paragraph |-> paragraph, branch |-> branch])]
    IN  IF paragraph = <<>> THEN st
        ELSE IF branch = "fits" THEN AppendPiece(logged, paragraph, <<NL, NL>>)
        ELSE IF branch = "flush" THEN FlushAndOverlap(logged, paragraph, <<NL, NL>>, ov)
        ELSE SplitOrAlone(logged, paragraph, cs, ov)

RECURSIVE ParagraphLoop(_, _, _, _, _)
ParagraphLoop(st, pars, k, cs, ov) ==
    IF k > Len(pars) THEN st
    ELSE ParagraphLoop(ParagraphStep(st, pars[k], cs, ov), pars, k + 1, cs, ov)

\* line 154: the minimum chunk length
MinChunkLen == 50

\* a slip in line 154: only empty chunks filtered out
FilterShort_emptyOnly(chunks) == SelectSeq(chunks, LAMBDA chunk : Len(chunk) > 0)

\* line 154
FilterShort(chunks) == SelectSeq(chunks, LAMBDA chunk : Len(chunk) >= MinChunkLen)

\* lines 111-156
_chunk_text(t, cs, ov) ==
    FilterShort(FlushLast(ParagraphLoop(EmptyLoop, SplitParagraphs(t), 1, cs, ov)).chunks)

----------------------------------------------------------------------------
(* SpecOverlap *)

MaxOverlapTextLen == 5
MaxOverlapSize == 4

RECURSIVE StringsUpTo(_)
StringsUpTo(n) ==
    IF n = 0 THEN {<<>>}
    ELSE LET shorter == StringsUpTo(n - 1)
         IN  shorter \cup {Append(s, c) : s \in shorter, c \in Char}

ChunkIdle ==
    /\ text = <<>> /\ chunk_size = 0 /\ overlap = 0 /\ paragraphs = <<>>
    /\ next_par = 0 /\ loop = <<>> /\ returned = <<>> /\ c_pc = "off"

StoreIdle ==
    /\ has_client = FALSE /\ alive = FALSE /\ client_open = FALSE
    /\ client_close_calls = 0 /\ points = {} /\ s_pc = "off" /\ doc = <<>>
    /\ ld_chunks = <<>> /\ ld_i = 0 /\ ld_points = <<>> /\ next_uuid = 0
    /\ outcome = "none" /\ load_calls = 0 /\ embed_calls = 0 /\ upsert_calls = 0
    /\ writers = {}

InitOverlap ==
    /\ o_text \in StringsUpTo(MaxOverlapTextLen)
    /\ o_size \in 0..MaxOverlapSize
    /\ o_result = <<>>
    /\ o_pc = "call"
    /\ ChunkIdle
    /\ StoreIdle

GetOverlapText ==
    /\ o_pc = "call"
    /\ o_result' = _get_overlap_text(o_text, o_size)
    /\ o_pc' = "returned"
    /\ UNCHANGED <<o_text, o_size, cvars, svars>>

NextOverlap == GetOverlapText

SpecOverlap == InitOverlap /\ [][NextOverlap]_vars

----------------------------------------------------------------------------
(* SpecChunk: _chunk_text(text, chunk_size, overlap), one action per iteration
   of the paragraph loop and one for lines 149-156 *)

MaxTokens == 5

\* the pieces the input texts are built of: a short and a long word, a sentence
\* end, a paragraph break, a line break
Tokens == {Rep("a", 8), Rep("a", 30), <<".", " ">>, <<NL, NL>>, <<NL>>}

RECURSIVE TextsUpTo(_)
TextsUpTo(n) ==
    IF n = 0 THEN {<<>>}
    ELSE LET shorter == TextsUpTo(n - 1)
         IN  shorter \cup {s \o t : s \in shorter, t \in Tokens}

ChunkSizes == {40, 70}
Overlaps == {0, 10, 35}

OverlapIdle == o_text = <<>> /\ o_size = 0 /\ o_result = <<>> /\ o_pc = "off"

InitChunk ==
    /\ text \in TextsUpTo(MaxTokens)
    /\ chunk_size \in ChunkSizes
    /\ overlap \in Overlaps
    /\ paragraphs = SplitParagraphs(text)
    /\ next_par = 1
    /\ loop = EmptyLoop
    /\ returned = <<>>
    /\ c_pc = "loop"
    /\ OverlapIdle
    /\ StoreIdle

\* the next paragraph of the for loop of line 117, stripped (line 118)
NextParagraph == Strip(paragraphs[next_par])

\* lines 117-147 for the next paragraph
Iterate ==
    /\ loop' = ParagraphStep(loop, paragraphs[next_par], chunk_size, overlap)
    /\ next_par' = next_par + 1
    /\ UNCHANGED <<text, chunk_size, overlap, paragraphs, returned, c_pc, ovars, svars>>

InLoop == c_pc = "loop" /\ next_par <= Len(paragraphs)

\* lines 119-120
SkipBlankParagraph ==
    /\ InLoop /\ NextParagraph = <<>>
    /\ Iterate

\* lines 123-127
AppendParagraph ==
    /\ InLoop /\ NextParagraph # <<>>
    /\ Branch(loop, NextParagraph, chunk_size) = "fits"
    /\ Iterate

\* lines 130-134
FlushThenParagraph ==
    /\ InLoop /\ NextParagraph # <<>>
    /\ Branch(loop, NextParagraph, chunk_size) = "flush"
    /\ Iterate

\* lines 137-145
SplitParagraph ==
    /\ InLoop /\ NextParagraph # <<>>
    /\ Branch(loop, NextParagraph, chunk_size) = "split"
    /\ Iterate

\* lines 146-147
ParagraphAlone ==
    /\ InLoop /\ NextParagraph # <<>>
    /\ Branch(loop, NextParagraph, chunk_size) = "alone"
    /\ Iterate

\* lines 149-156
ReturnChunks ==
    /\ c_pc = "loop" /\ next_par > Len(paragraphs)
    /\ loop' = FlushLast(loop)
    /\ returned' = FilterShort(loop'.chunks)
    /\ c_pc' = "returned"
    /\ UNCHANGED <<text, chunk_size, overlap, paragraphs, next_par, ovars, svars>>

NextChunk ==
    \/ SkipBlankParagraph
    \/ AppendParagraph
    \/ FlushThenParagraph
    \/ SplitParagraph
    \/ ParagraphAlone
    \/ ReturnChunks

SpecChunk == InitChunk /\ [][NextChunk]_vars

\* the step-by-step run returns what the function returns
ReturnsChunkText == c_pc = "returned" => returned = _chunk_text(text, chunk_size, overlap)

----------------------------------------------------------------------------
(* Properties of _chunk_text (SpecChunk) *)

NonSpace(s) == SelectSeq(s, LAMBDA c : ~IsSpace(c))

IsSuffix(u, s) == Len(u) <= Len(s) /\ SubSeq(s, Len(s) - Len(u) + 1, Len(s)) = u
IsPrefix(u, s) == Len(u) <= Len(s) /\ SubSeq(s, 1, Len(u)) = u
Occurs(u, s) == Find(s, u) # -1

RECURSIVE Concat(_)
Concat(ss) == IF ss = <<>> THEN <<>> ELSE Head(ss) \o Concat(Tail(ss))

\* the chunks with their prepended overlap fragments (and separators) removed
Bodies(chunks, cuts) == [i \in 1..Len(chunks) |-> SliceFrom(chunks[i], cuts[i])]

\* the stripped non-blank paragraphs of the input, in input order
NonBlankParagraphs ==
    SelectSeq([k \in 1..Len(paragraphs) |-> Strip(paragraphs[k])], LAMBDA q : q # <<>>)

\* the stripped non-blank sentences of a paragraph, in order (lines 204-224)
NonBlankSentences(paragraph) ==
    LET full == FullSentences(ReSplit(paragraph))
    IN  SelectSeq([k \in 1..Len(full) |-> Strip(full[k])], LAMBDA q : q # <<>>)

\* the positions of loop.chunks that line 154 keeps
KeptPositions ==
    SelectSeq([i \in 1..Len(loop.chunks) |-> i],
              LAMBDA i : Len(loop.chunks[i]) >= MinChunkLen)

\* the overlap cut of each returned chunk
ReturnedCuts == [k \in 1..Len(KeptPositions) |-> loop.cuts[KeptPositions[k]]]

\* what a list of chunks holds of the input: its bodies in order, compared on
\* the non-whitespace characters (paragraphs are re-joined by "\n\n", the
\* sentences of a split paragraph by " ")
HoldsAllContent(chunks, cuts) ==
    NonSpace(Concat(Bodies(chunks, cuts))) = NonSpace(Concat(NonBlankParagraphs))

\* C1 as claimed: the chunks RETURNED by _chunk_text, overlap fragments
\* removed, contain every non-blank paragraph of the input in input order.
C1_ReturnedChunksLoseNoContent ==
    c_pc = "returned" => HoldsAllContent(returned, ReturnedCuts)

\* C1 amended: the chunks assembled BEFORE the minimum-length filter of line
\* 154, overlap fragments removed, contain every non-blank paragraph of the
\* input in input order: a paragraph placed unsplit occurs verbatim in a
\* chunk, each sentence of a split paragraph occurs verbatim in a chunk, and
\* the bodies read in order are the paragraphs read in order.
C1_AssembledChunksLoseNoContent ==
    c_pc = "returned" =>
        /\ HoldsAllContent(loop.chunks, loop.cuts)
        /\ \A k \in 1..Len(loop.decisions) :
              LET d == loop.decisions[k]
                  pieces == IF d.branch = "split" THEN NonBlankSentences(d.paragraph)
                            ELSE <<d.paragraph>>
              IN  \A j \in 1..Len(pieces) :
                     \E i \in 1..Len(loop.chunks) :
                        Occurs(pieces[j], SliceFrom(loop.chunks[i], loop.cuts[i]))

\* a run with a split paragraph, an overlap fragment and a chunk dropped by
\* the filter, while another is returned
C1_Witness ==
    /\ c_pc = "returned"
    /\ \E k \in 1..Len(loop.decisions) : loop.decisions[k].branch = "split"
    /\ \E i \in 1..Len(loop.cuts) : loop.cuts[i] > 0
    /\ returned # <<>>
    /\ Len(returned) < Len(loop.chunks)

\* C2 as claimed: every paragraph longer than chunk_size that holds more than
\* one sentence is handed to _split_long_paragraph, whatever current_chunk
\* holds when the loop reaches it.
C2_OversizedParagraphIsSplit ==
    \A k \in 1..Len(loop.decisions) :
        LET d == loop.decisions[k]
        IN  (Len(d.paragraph) > chunk_size /\ Len(NonBlankSentences(d.paragraph)) > 1)
                => d.branch = "split"

\* C3: at every chunk boundary of _chunk_text and of _split_long_paragraph the
\* overlap fragment is empty or a suffix of the flushed chunk, and the next
\* current_chunk starts with it.
C3_OverlapIsSuffixOfFlushedChunk ==
    \A k \in 1..Len(loop.boundaries) :
        LET b == loop.boundaries[k]
        IN  /\ b.overlap_text = <<>> \/ IsSuffix(b.overlap_text, b.flushed)
            /\ IsPrefix(b.overlap_text, b.next)

\* a run with a paragraph boundary and a sentence boundary, one of them with
\* an overlap fragment that starts after a sentence end inside the window
C3_Witness ==
    /\ c_pc = "returned"
    /\ \E k \in 1..Len(loop.boundaries) : loop.boundaries[k].joiner = <<NL, NL>>
    /\ \E k \in 1..Len(loop.boundaries) : loop.boundaries[k].joiner = <<" ">>
    /\ \E k \in 1..Len(loop.boundaries) :
          LET b == loop.boundaries[k]
          IN  /\ overlap > 0
              /\ Len(b.flushed) > overlap
              /\ b.overlap_text # <<>>
              /\ Len(b.overlap_text) < overlap

\* C4: every chunk of the returned list is non-empty and at least 50
\* characters long.
C4_ReturnedChunksAtLeastMinLen ==
    \A i \in 1..Len(returned) : returned[i] # <<>> /\ Len(returned[i]) >= 50

\* a call that returns a chunk and has dropped a shorter one
C4_Witness ==
    /\ c_pc = "returned"
    /\ returned # <<>>
    /\ \E i \in 1..Len(loop.chunks) : Len(loop.chunks[i]) < 50

----------------------------------------------------------------------------
(* Properties of _get_overlap_text (SpecOverlap) *)

\* the trailing n characters of s, for 1 <= n < Len(s)
TrailingWindow(s, n) == SubSeq(s, Len(s) - n + 1, Len(s))

\* the delimiters of sentence_starts that occur in window w
MarkersIn(w) == {k \in 1..Len(sentence_starts) : Find(w, sentence_starts[k]) # -1}

\* the delimiter whose first occurrence in w is the latest
LatestMarker(w) ==
    CHOOSE k \in MarkersIn(w) :
        \A j \in MarkersIn(w) : Find(w, sentence_starts[j]) <= Find(w, sentence_starts[k])

\* C8 as claimed, for overlap_size >= 1: for a text longer than overlap_size,
\* when a marker occurs in the trailing window the result is the trimmed
\* substring after the latest first occurrence of a marker, and the trimmed
\* whole window only when no marker occurs.
C8_OverlapStartsAfterLatestMarker ==
    (o_pc = "returned" /\ o_size >= 1 /\ Len(o_text) > o_size) =>
        LET w == TrailingWindow(o_text, o_size)
        IN  IF MarkersIn(w) # {}
            THEN LET d == sentence_starts[LatestMarker(w)]
                 IN  o_result = Strip(SliceFrom(w, Find(w, d) + Len(d)))
            ELSE o_result = Strip(w)

\* C9 as claimed: for every overlap_size >= 0, 0 included, the result is no
\* longer than overlap_size.
C9_OverlapAtMostOverlapSize ==
    o_pc = "returned" => Len(o_result) <= o_size

----------------------------------------------------------------------------
(* SpecStore: load_documents, _create_embedding and close on one VectorStore.
   The program is single-threaded (no threads, no async): a call runs to its
   end before the next begins.  load_documents is cut at its external calls,
   each of which may raise. *)

MaxLoadCalls == 3
MaxCloseCalls == 3

\* line 93: the defaults load_documents leaves to _chunk_text (line 264)
DefaultChunkSize == 500
DefaultOverlap == 100

Sentence250 == Append(Rep("a", 250), ".")

\* the files' contents: no chunk (too short), one chunk, two paragraph chunks,
\* three sentence chunks of one long paragraph
Docs ==
    { Rep("a", 30),
      Rep("a", 60),
      Rep("a", 300) \o <<NL, NL>> \o Rep("a", 300),
      Sentence250 \o <<" ">> \o Sentence250 \o <<" ">> \o Sentence250 }

\* line 264: chunks = self._chunk_text(text), for each file content
ChunksOfDoc == [d \in Docs |-> _chunk_text(d, DefaultChunkSize, DefaultOverlap)]

\* lines 309-313: the vector the provider returns for an input text
_create_embedding(t) == <<"text-embedding-3-small", t>>

\* line 282: uuid4 never repeats a value; the n-th value drawn is n
Uuid4(n) == n

\* a slip in lines 276-284: chunk_id counted from 1
NewPoint_fromOne(i, chunk, embedding, id) ==
    [id |-> id, vector |-> embedding, payload |-> [text |-> chunk, chunk_id |-> i + 1]]

\* lines 281-285
NewPoint(i, chunk, embedding, id) ==
    [id |-> id, vector |-> embedding, payload |-> [text |-> chunk, chunk_id |-> i]]

\* client.upsert: each point of the batch, in order, replaces the stored point
\* with its id or is added
RECURSIVE Upsert(_, _)
Upsert(coll, batch) ==
    IF batch = <<>> THEN coll
    ELSE Upsert({q \in coll : q.id # Head(batch).id} \cup {Head(batch)}, Tail(batch))

\* a slip in line 269: a comparison that never holds
AlreadyLoaded_never(coll) == Cardinality(coll) < 0

\* line 269: collection_info.points_count > 0
AlreadyLoaded(coll) == Cardinality(coll) > 0

InitStore ==
    /\ has_client \in BOOLEAN
    /\ alive = TRUE
    /\ client_open = has_client
    /\ client_close_calls = 0
    /\ points = {}
    /\ s_pc = "idle"
    /\ doc = <<>>
    /\ ld_chunks = <<>>
    /\ ld_i = 0
    /\ ld_points = <<>>
    /\ next_uuid = 0
    /\ outcome = "none"
    /\ load_calls = 0
    /\ embed_calls = 0
    /\ upsert_calls = 0
    /\ writers = {}
    /\ OverlapIdle
    /\ ChunkIdle

\* a method of a constructed object can be called
Callable == alive /\ has_client /\ s_pc = "idle"

\* lines 256-257: the file does not exist
LoadMissingFile ==
    /\ Callable /\ load_calls < MaxLoadCalls
    /\ load_calls' = load_calls + 1
    /\ outcome' = "FileNotFoundError"
    /\ UNCHANGED <<has_client, alive, client_open, client_close_calls, points, s_pc,
                   doc, ld_chunks, ld_i, ld_points, next_uuid, embed_calls,
                   upsert_calls, writers, ovars, cvars>>

\* lines 259-274: read the file, chunk it, look at the collection.
\* get_collection on a released client raises, and the exception leaves the call.
LoadBegin ==
    /\ Callable /\ load_calls < MaxLoadCalls
    /\ \E d \in Docs :
         /\ load_calls' = load_calls + 1
         /\ doc' = d
         /\ ld_chunks' = ChunksOfDoc[d]
         /\ ld_i' = 0
         /\ ld_points' = <<>>
         /\ IF ~client_open
            THEN outcome' = "client_error" /\ s_pc' = "idle"
            ELSE IF AlreadyLoaded(points)
            THEN outcome' = "skipped" /\ s_pc' = "idle"
            ELSE /\ outcome' = "running"
                 /\ s_pc' = IF ld_chunks' = <<>> THEN "upsert" ELSE "embedding"
    /\ UNCHANGED <<has_client, alive, client_open, client_close_calls, points,
                   next_uuid, embed_calls, upsert_calls, writers, ovars, cvars>>

\* a variant of lines 276-295 that upserts each point as soon as it is built
EmbedChunk_upsertEach ==
    /\ s_pc = "embedding"
    /\ LET chunk == ld_chunks[ld_i + 1]
           point == NewPoint(ld_i, chunk, _create_embedding(chunk), Uuid4(next_uuid + 1))
       IN  /\ ld_points' = Append(ld_points, point)
           /\ points' = Upsert(points, <<point>>)
    /\ embed_calls' = embed_calls + 1
    /\ next_uuid' = next_uuid + 1
    /\ ld_i' = ld_i + 1
    /\ s_pc' = IF ld_i' = Len(ld_chunks) THEN "upsert" ELSE "embedding"
    /\ UNCHANGED <<has_client, alive, client_open, client_close_calls, doc,
                   ld_chunks, outcome, load_calls, upsert_calls, writers, ovars, cvars>>

\* lines 276-289: one iteration of the for loop, the embedding request answered
EmbedChunk ==
    /\ s_pc = "embedding"
    /\ LET chunk == ld_chunks[ld_i + 1]
           embedding == _create_embedding(chunk)
       IN  ld_points' = Append(ld_points, NewPoint(ld_i, chunk, embedding, Uuid4(next_uuid + 1)))
    /\ embed_calls' = embed_calls + 1
    /\ next_uuid' = next_uuid + 1
    /\ ld_i' = ld_i + 1
    /\ s_pc' = IF ld_i' = Len(ld_chunks) THEN "upsert" ELSE "embedding"
    /\ UNCHANGED <<has_client, alive, client_open, client_close_calls, points, doc,
                   ld_chunks, outcome, load_calls, upsert_calls, writers, ovars, cvars>>

\* line 278 with lines 309-312 raising: nothing catches the exception, it
\* leaves load_documents and the local list points is dropped
EmbedFails ==
    /\ s_pc = "embedding"
    /\ embed_calls' = embed_calls + 1
    /\ outcome' = "embedding_error"
    /\ s_pc' = "idle"
    /\ ld_points' = <<>>
    /\ UNCHANGED <<has_client, alive, client_open, client_close_calls, points, doc,
                   ld_chunks, ld_i, next_uuid, load_calls, upsert_calls, writers,
                   ovars, cvars>>

\* lines 292-297: the one upsert of the whole batch
UpsertBatch ==
    /\ s_pc = "upsert"
    /\ upsert_calls' = upsert_calls + 1
    /\ points' = Upsert(points, ld_points)
    /\ writers' = IF ld_points # <<>> THEN writers \cup {load_calls} ELSE writers
    /\ outcome' = "loaded"
    /\ s_pc' = "idle"
    /\ UNCHANGED <<has_client, alive, client_open, client_close_calls, doc, ld_chunks,
                   ld_i, ld_points, next_uuid, load_calls, embed_calls, ovars, cvars>>

\* lines 292-295 raising: the index gives no atomicity, any leading part of
\* the batch may have been stored when the exception leaves load_documents
UpsertFails ==
    /\ s_pc = "upsert"
    /\ upsert_calls' = upsert_calls + 1
    /\ \E k \in 0..Len(ld_points) :
         /\ k < Len(ld_points) \/ ld_points = <<>>
         /\ points' = Upsert(points, SubSeq(ld_points, 1, k))
         /\ writers' = IF k > 0 THEN writers \cup {load_calls} ELSE writers
    /\ outcome' = "upsert_error"
    /\ s_pc' = "idle"
    /\ UNCHANGED <<has_client, alive, client_open, client_close_calls, doc, ld_chunks,
                   ld_i, ld_points, next_uuid, load_calls, embed_calls, ovars, cvars>>

\* lines 60-65: the body of close().  self.client.close() is invoked whenever
\* the attribute exists and is set; it may raise, and the except clause of
\* line 64 swallows that.
CloseBody ==
    /\ IF has_client
       THEN /\ client_close_calls' = client_close_calls + 1
            /\ \E raised \in BOOLEAN :
                 client_open' = IF raised THEN client_open ELSE FALSE
       ELSE UNCHANGED <<client_close_calls, client_open>>
    /\ outcome' = "closed"

\* lines 58-65: an explicit close()
close ==
    /\ Callable /\ client_close_calls < MaxCloseCalls
    /\ CloseBody
    /\ UNCHANGED <<has_client, alive, points, s_pc, doc, ld_chunks, ld_i, ld_points,
                   next_uuid, load_calls, embed_calls, upsert_calls, writers,
                   ovars, cvars>>

\* lines 54-56: the end of a with block (lines 381-395)
__exit__ ==
    /\ Callable /\ client_close_calls < MaxCloseCalls
    /\ CloseBody
    /\ UNCHANGED <<has_client, alive, points, s_pc, doc, ld_chunks, ld_i, ld_points,
                   next_uuid, load_calls, embed_calls, upsert_calls, writers,
                   ovars, cvars>>

\* lines 67-69: the finalizer, also of an object whose __init__ raised before
\* line 39 set self.client
__del__ ==
    /\ alive /\ s_pc = "idle"
    /\ CloseBody
    /\ alive' = FALSE
    /\ UNCHANGED <<has_client, points, s_pc, doc, ld_chunks, ld_i, ld_points,
                   next_uuid, load_calls, embed_calls, upsert_calls, writers,
                   ovars, cvars>>

NextStore ==
    \/ LoadMissingFile
    \/ LoadBegin
    \/ EmbedChunk
    \/ EmbedFails
    \/ UpsertBatch
    \/ UpsertFails
    \/ close
    \/ __exit__
    \/ __del__

SpecStore == InitStore /\ [][NextStore]_vars

----------------------------------------------------------------------------
(* Properties of load_documents and close (SpecStore) *)

\* a step that begins a load_documents call
LoadCallStep == s_pc = "idle" /\ load_calls' = load_calls + 1

\* C5: a load_documents call made while the collection holds a point leaves
\* the points as they are and issues no embedding request and no upsert; so
\* the points of the collection all come from at most one call.
C5_LoadOnNonEmptyCollectionIsNoOp ==
    /\ [][(LoadCallStep /\ points # {}) =>
              /\ points' = points
              /\ embed_calls' = embed_calls
              /\ upsert_calls' = upsert_calls
              /\ s_pc' = "idle"]_vars
    /\ [](Cardinality(writers) <= 1)

\* a second call was skipped on a collection that holds points
C5_Witness ==
    /\ outcome = "skipped"
    /\ points # {}
    /\ load_calls >= 2
    /\ upsert_calls = 1

\* C6: after a load_documents call that completes on an empty collection the
\* collection holds one point per chunk of _chunk_text: chunk_id values are
\* exactly 0..n-1, the point with chunk_id i carries the i-th chunk and the
\* embedding of that chunk, and the ids are pairwise distinct.
C6_OnePointPerChunk ==
    outcome = "loaded" =>
        LET chunks == ChunksOfDoc[doc]
            n == Len(chunks)
        IN  /\ Cardinality(points) = n
            /\ {q.payload.chunk_id : q \in points} = 0..(n - 1)
            /\ Cardinality({q.id : q \in points}) = n
            /\ \A q \in points :
                  /\ q.payload.text = chunks[q.payload.chunk_id + 1]
                  /\ q.vector = _create_embedding(chunks[q.payload.chunk_id + 1])

\* a completed load of the three-chunk document, after an earlier call that
\* drew uuids and failed
C6_Witness ==
    /\ outcome = "loaded"
    /\ Cardinality(points) = 3
    /\ load_calls >= 2
    /\ next_uuid > 3

\* C7 as claimed: no close() invocation (explicit, __exit__, __del__) raises,
\* and once self.client.close() has succeeded no later invocation calls it
\* again.
C7_CloseIsIdempotentAndNeverRaises ==
    [][/\ client_close_calls' # client_close_calls => outcome' = "closed"
       /\ (has_client /\ ~client_open) => client_close_calls' = client_close_calls]_vars

\* C10: an embedding request that fails ends load_documents with the
\* exception, without an upsert and with the points unchanged: the collection
\* is still empty, and a load_documents call that follows is not skipped.
C10_EmbeddingFailureStoresNothing ==
    /\ [][(s_pc = "embedding" /\ outcome' = "embedding_error") =>
              /\ points' = points
              /\ points' = {}
              /\ upsert_calls' = upsert_calls
              /\ s_pc' = "idle"]_vars
    /\ [](outcome = "embedding_error" => points = {})
    /\ [][(outcome = "embedding_error" /\ LoadCallStep) => outcome' # "skipped"]_vars

\* the second embedding request of a call failed, after the first was answered
C10_Witness ==
    /\ outcome = "embedding_error"
    /\ ld_i >= 1
    /\ embed_calls >= 2

=============================================================================
